---- MODULE Spec2Model ----
(***************************************************************************)
(* A model of ImportService (src/src/import/import.service.ts): one run of *)
(* importAsync over an import source, against a target project reached     *)
(* through the management client.  Every await of a network call is a      *)
(* state of its own: the call is issued (inflight), and is then either     *)
(* acknowledged (the .then callback runs) or rejected (the .catch runs).   *)
(***************************************************************************)
EXTENDS Integers, Sequences, FiniteSets, TLC

VARIABLES
    sourceData,        \* the IImportSource handed to importAsync (mutated in place)
    loaded,            \* the source as it was loaded (never changed)
    config,            \* IImportConfig
    target,            \* the target project (its languages)
    initialTarget,     \* the target project as it was when the run began
    pc,                \* position of the run inside importAsync
    idx,               \* index of the current entity inside an importer's loop
    importedItems,     \* importAsync's importedItems: the ledger / result list
    localItems,        \* the running importer's own importedItems
    currentLanguages,  \* importLanguagesAsync's currentLanguagesResponse.data.items
    inflight,          \* the network call that is outstanding, or NoCall
    calls,             \* every network call issued so far, in order
    events,            \* every event handed to config.onImport, in order
    passes,            \* the in-memory passes over the source done so far
    unsupportedBinaryFiles, \* importAssetsAsync's unsupportedBinaryFiles
    notified,          \* the binary files handed to config.onUnsupportedBinaryFile, in order
    rejected,          \* the call the target has rejected, or NoCall
    error              \* why the run was rejected, or NoError

vars == << sourceData, loaded, config, target, initialTarget, pc, idx, importedItems, localItems,
           currentLanguages, inflight, calls, events, passes, unsupportedBinaryFiles, notified, rejected, error >>

----------------------------------------------------------------------------
(* Bounds *)

\* The largest number of entities of one kind in a source.
MaxPerKind == 2

\* The most folders a tree of asset folders holds.
MaxFolders == 3

----------------------------------------------------------------------------
(* Values *)

defaultLanguageId == 0
publishedWorkflowStepName == "Published"
maxAllowedAssetSizeInBytes == 100000000
Undefined == "undefined"
NoId == 0 - 1
NoCall == [op |-> "none"]
NoError == [kind |-> "none"]

\* The id the target assigns to the entity created from the entity `id`.
NewId(id) == id + 100

SeqOf(n, f(_)) == [i \in 1..n |-> f(i)]

\* Array.prototype.filter
Filter(s, keep(_)) == SelectSeq(s, keep)

\* Array.prototype.find, as the index of the first match (0: undefined)
FindIdx(s, test(_)) ==
    IF \E i \in 1..Len(s) : test(s[i])
    THEN CHOOSE i \in 1..Len(s) : test(s[i]) /\ \A j \in 1..(i - 1) : ~test(s[j])
    ELSE 0

Range(s) == {s[i] : i \in 1..Len(s)}

Kinds == << "assetFolders", "languages", "taxonomies", "contentTypeSnippets",
            "contentTypes", "assets", "contentItems", "languageVariants" >>
KindSet == Range(Kinds)

----------------------------------------------------------------------------
(* The import source: the entity contracts of an exported project.  Ids are *)
(* unique over the whole project, as the ids of one project are.            *)

LanguageCodenames == << "en-US", "de-DE", "fr-FR", "es-ES" >>
TypeCodenames == << "article", "author", "page", "teaser" >>
ItemCodenames == << "item_a", "item_b", "item_c", "item_d" >>

Folder(i, subs) == [id |-> 10 + i, external_id |-> NoId, folders |-> subs]

\* A forest of n folders: the second folder lies inside the first one.
FolderForest(n) ==
    IF n = 0 THEN << >>
    ELSE IF n = 1 THEN << Folder(1, << >>) >>
    ELSE << Folder(1, << Folder(2, << >>) >>) >> \o [i \in 1..(n - 2) |-> Folder(i + 2, << >>)]

LanguageId(i) == IF i = 1 THEN defaultLanguageId ELSE 20 + i

\* Language i of the source; the first one is the default language.  Every
\* language falls back to the default language, the default one to itself.
Language(i, codename) ==
    [ id |-> LanguageId(i), codename |-> codename, is_default |-> (i = 1),
      is_active |-> TRUE,
      fallback_language |-> [id |-> defaultLanguageId, codename |-> Undefined] ]

Taxonomy(i) == [id |-> 30 + i]
ContentTypeSnippet(i) == [id |-> 40 + i]
ContentType(i) == [id |-> 50 + i, codename |-> TypeCodenames[i]]

\* Asset i; the first asset lies in the first folder, the others in the root.
Asset(i) == [id |-> 60 + i, folder |-> [id |-> IF i = 1 THEN 11 ELSE NoId]]
BinaryFile(i) == [asset |-> [id |-> 60 + i, size |-> 2048], binaryData |-> "bytes"]

ContentItem(i) ==
    [id |-> 70 + i, codename |-> ItemCodenames[i], type |-> [id |-> 51, codename |-> Undefined]]

\* (item, language) of variant k, and the ids its elements refer to.
VariantItem(k) == IF k = 3 THEN 2 ELSE IF k = 4 THEN 2 ELSE 1
VariantLanguage(k) == IF k = 2 THEN 2 ELSE IF k = 4 THEN 2 ELSE 1
VariantRefs(k) == IF k = 1 THEN << 61 >> ELSE IF k = 2 THEN << 72, 61 >> ELSE << 71 >>

LanguageVariant(k) ==
    [ item |-> [id |-> 70 + VariantItem(k), codename |-> Undefined],
      language |-> [id |-> LanguageId(VariantLanguage(k)), codename |-> Undefined],
      workflow_step |-> [id |-> IF k % 2 = 1 THEN 81 ELSE 82],
      elements |-> << [value |-> [j \in 1..Len(VariantRefs(k)) |-> [id |-> VariantRefs(k)[j]]]] >> ]

WorkflowSteps ==
    << [id |-> 81, name |-> publishedWorkflowStepName], [id |-> 82, name |-> "Draft"] >>

\* The source holding n[k] entities of kind k.
Source(n, languages) ==
    [ assetFolders |-> FolderForest(n["assetFolders"]),
      languages |-> languages,
      taxonomies |-> SeqOf(n["taxonomies"], Taxonomy),
      contentTypeSnippets |-> SeqOf(n["contentTypeSnippets"], ContentTypeSnippet),
      contentTypes |-> SeqOf(n["contentTypes"], ContentType),
      assets |-> SeqOf(n["assets"], Asset),
      binaryFiles |-> SeqOf(n["assets"], BinaryFile),
      contentItems |-> SeqOf(n["contentItems"], ContentItem),
      languageVariants |-> SeqOf(n["languageVariants"], LanguageVariant),
      workflowSteps |-> WorkflowSteps ]

SourceLanguages(n) == [i \in 1..n |-> Language(i, LanguageCodenames[i])]

----------------------------------------------------------------------------
(* Configuration and target project *)

\* The key a predicate of config.process sees an entity by.
Key(kind, item) ==
    IF kind = "languageVariants" THEN << item.item.id, item.language.id >> ELSE item.id

Keys(kind, source) == {Key(kind, source[kind][i]) : i \in 1..Len(source[kind])}

\* config.process: per kind, whether a predicate is configured and the
\* entities it returns false for.
NoProcess == [k \in KindSet |-> [present |-> FALSE, reject |-> {}]]

BaseConfig ==
    [ fixLanguages |-> FALSE, enablePublish |-> TRUE, workflowIdForImportedItems |-> 91,
      onImport |-> "present", onUnsupportedBinaryFile |-> "present", process |-> NoProcess ]

TargetLanguage(id, codename, isActive) == [id |-> id, codename |-> codename, isActive |-> isActive]

BaseTarget == [languages |-> << TargetLanguage(defaultLanguageId, "en-US", TRUE) >>]

BaseCounts == [k \in KindSet |-> MaxPerKind]
BaseSource == Source(BaseCounts, SourceLanguages(MaxPerKind))

\* Sources in which at most two kinds hold fewer entities than MaxPerKind.
CountVectors ==
    {n \in [KindSet -> 0..MaxPerKind] : Cardinality({k \in KindSet : n[k] # MaxPerKind}) <= 2}

CountScenarios ==
    { [source |-> Source(n, SourceLanguages(n["languages"])), config |-> BaseConfig,
       target |-> BaseTarget] : n \in CountVectors }

\* One kind has a predicate, which rejects any subset of the kind's entities.
ProcessChoices ==
    { [NoProcess EXCEPT ![c[1]] = [present |-> TRUE, reject |-> c[2]]] :
        c \in UNION {{<< k, r >> : r \in SUBSET Keys(k, BaseSource)} : k \in KindSet} }

FilterScenarios ==
    { [source |-> BaseSource, config |-> [BaseConfig EXCEPT !.process = p],
       target |-> BaseTarget] : p \in ProcessChoices }

\* Orders of any non-empty choice of the source's languages.
LanguageLists ==
    LET all == SourceLanguages(MaxPerKind)
        perms == UNION {{f \in [1..n -> 1..MaxPerKind] :
                            \A i, j \in 1..n : i # j => f[i] # f[j]} : n \in 1..MaxPerKind}
    IN  {[i \in DOMAIN f |-> all[f[i]]] : f \in perms}

\* The target's languages: its default language, named as the source's or
\* not, and at most one further language, active or not.
TargetLanguageLists ==
    {<< TargetLanguage(defaultLanguageId, c, TRUE) >> : c \in {"en-US", "en-GB"}}
    \cup {<< TargetLanguage(defaultLanguageId, "en-US", TRUE), TargetLanguage(901, "de-DE", a) >> :
            a \in BOOLEAN}
    \cup {<< TargetLanguage(defaultLanguageId, "en-GB", TRUE), TargetLanguage(901, c, a) >> :
            c \in {"de-DE", "en-US"}, a \in BOOLEAN}

LanguageScenarios ==
    { [source |-> Source(BaseCounts, ls),
       config |-> [BaseConfig EXCEPT !.fixLanguages = f],
       target |-> [languages |-> t]] :
        ls \in LanguageLists, f \in BOOLEAN, t \in TargetLanguageLists }

ConfigScenarios ==
    { [source |-> BaseSource,
       config |-> [BaseConfig EXCEPT !.enablePublish = p, !.workflowIdForImportedItems = w],
       target |-> BaseTarget] : p \in BOOLEAN, w \in {NoId, 91} }

\* The binary file of asset i with a payload of `size` bytes.
SizedBinaryFile(i, size) == [asset |-> [id |-> 60 + i, size |-> size], binaryData |-> "bytes"]

\* Payload sizes around the ceiling.
Sizes == {maxAllowedAssetSizeInBytes - 1, maxAllowedAssetSizeInBytes,
          maxAllowedAssetSizeInBytes + 1}

\* The binary files of the source: per asset a file of some size, or none.
BinaryFileLists ==
    { Filter(SeqOf(MaxPerKind, LAMBDA i : SizedBinaryFile(i, c[i])),
             LAMBDA m : m.asset.size # NoId) :
        c \in [1..MaxPerKind -> Sizes \cup {NoId}] }

AssetScenarios ==
    { [source |-> [BaseSource EXCEPT !.binaryFiles = files],
       config |-> [BaseConfig EXCEPT !.onUnsupportedBinaryFile = cb],
       target |-> BaseTarget] : files \in BinaryFileLists, cb \in {"present", "absent"} }

RECURSIVE Subfolders(_, _)
\* The folders whose parent is folder k (0: the root), each with its own
\* subfolders; parent[i] < i names the parent of folder i.
Subfolders(parent, k) ==
    LET children == Filter([i \in DOMAIN parent |-> i], LAMBDA i : parent[i] = k)
    IN  [j \in 1..Len(children) |-> Folder(children[j], Subfolders(parent, children[j]))]

\* Every forest of 1..MaxFolders folders: flat, nested, and chains of any
\* depth up to MaxFolders.
FolderTrees ==
    UNION { { Subfolders(parent, 0) :
                parent \in {f \in [1..n -> 0..(n - 1)] : \A i \in 1..n : f[i] < i} } :
            n \in 1..MaxFolders }

FolderScenarios ==
    { [source |-> [BaseSource EXCEPT !.assetFolders = tree], config |-> BaseConfig,
       target |-> BaseTarget] : tree \in FolderTrees }

\* The workflow steps of the source: with the step named 'Published' first
\* or last, without it, or none at all.
WorkflowStepLists ==
    { WorkflowSteps,
      << [id |-> 82, name |-> "Draft"], [id |-> 81, name |-> publishedWorkflowStepName] >>,
      << [id |-> 82, name |-> "Draft"] >>,
      << [id |-> 81, name |-> "Review"], [id |-> 82, name |-> "Draft"] >>,
      << >> }

WorkflowScenarios ==
    { [source |-> [BaseSource EXCEPT !.workflowSteps = steps],
       config |-> [BaseConfig EXCEPT !.enablePublish = p],
       target |-> BaseTarget] : steps \in WorkflowStepLists, p \in BOOLEAN }

\* What an observer callback does: it is not configured, it returns, or it
\* raises an Error.
Callbacks == {"absent", "present", "throws"}

\* Runs over the same source and target, the first asset oversized, that
\* differ in their callbacks only.
CallbackScenarios ==
    { [source |-> [BaseSource EXCEPT !.binaryFiles[1] =
                        SizedBinaryFile(1, maxAllowedAssetSizeInBytes)],
       config |-> [BaseConfig EXCEPT !.onImport = i, !.onUnsupportedBinaryFile = u],
       target |-> BaseTarget] : i \in Callbacks, u \in Callbacks }

\* What the third language of a source may fall back to: the default
\* language, the second language, itself, or a language the source lacks.
Fallbacks == {defaultLanguageId, LanguageId(2), LanguageId(3), 29}

\* Sources of three languages: the default one, one that falls back to it,
\* and a third one with a fallback of its own.
FallbackScenarios ==
    { [source |-> Source(BaseCounts,
                         Append(SourceLanguages(2),
                                [Language(3, LanguageCodenames[3])
                                    EXCEPT !.fallback_language.id = f])),
       config |-> BaseConfig,
       target |-> BaseTarget] : f \in Fallbacks }

Scenarios ==
    CountScenarios \cup FilterScenarios \cup LanguageScenarios \cup ConfigScenarios
    \cup AssetScenarios \cup FolderScenarios \cup WorkflowScenarios \cup CallbackScenarios
    \cup FallbackScenarios

----------------------------------------------------------------------------
(* importAsync: the order of its passes and stages *)

\* importAsync with content types imported after the assets
ImportOrder_typesAfterAssets ==
    << "translateIds", "removeSkippedItemsFromImport",
       "assetFolders", "languages", "taxonomies", "contentTypeSnippets", "assets",
       "contentTypes", "contentItems", "languageVariants", "publish", "changeWorkflowStep",
       "done" >>

\* importAsync with the languages imported after the taxonomies
ImportOrder_languagesAfterTaxonomies ==
    << "translateIds", "removeSkippedItemsFromImport",
       "assetFolders", "taxonomies", "languages", "contentTypeSnippets", "contentTypes",
       "assets", "contentItems", "languageVariants", "publish", "changeWorkflowStep", "done" >>

\* importAsync with the two passes over the source exchanged
ImportOrder_filterFirst ==
    << "removeSkippedItemsFromImport", "translateIds",
       "assetFolders", "languages", "taxonomies", "contentTypeSnippets", "contentTypes",
       "assets", "contentItems", "languageVariants", "publish", "changeWorkflowStep", "done" >>

ImportOrder ==
    << "translateIds", "removeSkippedItemsFromImport",
       "assetFolders", "languages", "taxonomies", "contentTypeSnippets", "contentTypes",
       "assets", "contentItems", "languageVariants", "publish", "changeWorkflowStep", "done" >>

Position(order, stage) == CHOOSE i \in 1..Len(order) : order[i] = stage

\* The pass or stage importAsync goes on with after `stage`.
After(stage) == ImportOrder[Position(ImportOrder, stage) + 1]

At(stage, at) == [stage |-> stage, at |-> at]

\* importAsync appending the result of every importer
pushesResults_everyStage(stage) == stage \in KindSet

\* importAsync dropping the result of the asset importer as well
pushesResults_dropsAssets(stage) ==
    stage \notin {"contentTypeSnippets", "contentTypes", "assets"}

\* importAsync appends what an importer returns to importedItems, except for
\* content-type snippets and content types, whose result it drops.
pushesResults(stage) == stage \notin {"contentTypeSnippets", "contentTypes"}

Init ==
    \E sc \in Scenarios :
        /\ sourceData = sc.source
        /\ loaded = sc.source
        /\ config = sc.config
        /\ target = sc.target
        /\ initialTarget = sc.target
        /\ pc = At(ImportOrder[1], "gate")
        /\ idx = 0
        /\ importedItems = << >>
        /\ localItems = << >>
        /\ currentLanguages = << >>
        /\ inflight = NoCall
        /\ calls = << >>
        /\ events = << >>
        /\ passes = << >>
        /\ unsupportedBinaryFiles = << >>
        /\ notified = << >>
        /\ rejected = NoCall
        /\ error = NoError

----------------------------------------------------------------------------
(* translateIds: id references get the codename of the entity they name *)

\* The codename of the entity of `list` with the given id; Undefined when
\* the list holds no such entity (the reference stays unresolved).
CodenameOfId(list, id) ==
    LET i == FindIdx(list, LAMBDA m : m.id = id)
    IN  IF i = 0 THEN Undefined ELSE list[i].codename

translateIds(source) ==
    LET languages == source.languages
        types == source.contentTypes
        items == source.contentItems
        variants == source.languageVariants
    IN  [ source EXCEPT
            !.languages = [i \in 1..Len(languages) |->
                [languages[i] EXCEPT !.fallback_language.codename =
                    CodenameOfId(languages, languages[i].fallback_language.id)]],
            !.contentItems = [i \in 1..Len(items) |->
                [items[i] EXCEPT !.type.codename = CodenameOfId(types, items[i].type.id)]],
            !.languageVariants = [i \in 1..Len(variants) |->
                [variants[i] EXCEPT
                    !.item.codename = CodenameOfId(items, variants[i].item.id),
                    !.language.codename = CodenameOfId(languages, variants[i].language.id)]] ]

TranslateIds ==
    /\ pc = At("translateIds", "gate")
    /\ sourceData' = translateIds(sourceData)
    /\ passes' = Append(passes, "translateIds")
    /\ pc' = At(After("translateIds"), "gate")
    /\ UNCHANGED << loaded, initialTarget, config, rejected, unsupportedBinaryFiles, notified, target, idx, importedItems, localItems, currentLanguages,
                    inflight, calls, events, error >>

----------------------------------------------------------------------------
(* removeSkippedItemsFromImport *)

\* config.process.<kind>(item)
shouldImport(kind, item) == Key(kind, item) \notin config.process[kind].reject

\* list.filter((m) => m.id === item.id)
withoutId_keepsRejected(list, item) == Filter(list, LAMBDA m : m.id = item.id)

\* list.filter((m) => m.id !== item.id)
withoutId(list, item) == Filter(list, LAMBDA m : m.id # item.id)

\* languageVariants.filter((m) => m.item.id !== item.item.id && m.language.id !== item.language.id)
withoutVariant(list, item) ==
    Filter(list, LAMBDA m : m.item.id # item.item.id /\ m.language.id # item.language.id)

RECURSIVE skipLoop(_, _, _, _)
\* for (const item of original) { if (!shouldImport) current = current.filter(...) }
\* The loop runs over the array it started with; each filter replaces the
\* collection of the source.
skipLoop(kind, original, i, current) ==
    IF i > Len(original) THEN current
    ELSE skipLoop(kind, original, i + 1,
            IF shouldImport(kind, original[i]) THEN current
            ELSE IF kind = "languageVariants" THEN withoutVariant(current, original[i])
            ELSE withoutId(current, original[i]))

removeSkipped(kind, list) ==
    IF config.process[kind].present THEN skipLoop(kind, list, 1, list) ELSE list

removeSkippedItemsFromImport(source) ==
    [ source EXCEPT
        !.assets = removeSkipped("assets", @),
        !.languages = removeSkipped("languages", @),
        !.assetFolders = removeSkipped("assetFolders", @),
        !.contentTypes = removeSkipped("contentTypes", @),
        !.contentItems = removeSkipped("contentItems", @),
        !.contentTypeSnippets = removeSkipped("contentTypeSnippets", @),
        !.languageVariants = removeSkipped("languageVariants", @),
        !.taxonomies = removeSkipped("taxonomies", @) ]

RemoveSkippedItemsFromImport ==
    /\ pc = At("removeSkippedItemsFromImport", "gate")
    /\ sourceData' = removeSkippedItemsFromImport(sourceData)
    /\ passes' = Append(passes, "removeSkippedItemsFromImport")
    /\ pc' = At(After("removeSkippedItemsFromImport"), "gate")
    /\ UNCHANGED << loaded, initialTarget, config, rejected, unsupportedBinaryFiles, notified, target, idx, importedItems, localItems, currentLanguages,
                    inflight, calls, events, error >>

----------------------------------------------------------------------------
(* What the importers share *)

Call(op, stage, key, data) == [op |-> op, stage |-> stage, key |-> key, data |-> data]

\* An importer awaits a call on the client: the call is outstanding.
Issue(call) ==
    /\ inflight' = call
    /\ calls' = Append(calls, call)
    /\ pc' = At(pc.stage, "wait")

\* { imported, original, importId, originalId }; kind names the importer
\* that built the entry.
ImportItemResult(kind, originalId, importId) ==
    [kind |-> kind, originalId |-> originalId, importId |-> importId]

\* How a step of an importer ends: with a call awaited, with an Error
\* thrown, or with the next round of its loop.
\* a call that is sent without being awaited: the loop goes on at once
Issued_notAwaited(call) ==
    [pc |-> At(pc.stage, "loop"), issue |-> call, idx |-> idx + 1, error |-> NoError]

Issued(call) == [pc |-> At(pc.stage, "wait"), issue |-> call, idx |-> idx, error |-> NoError]
\* an Error that leaves the promise of the importer pending for ever
Thrown_pending(kind) == [pc |-> At(pc.stage, "wait"), issue |-> NoCall, idx |-> idx,
                         error |-> [kind |-> kind]]

Thrown(kind) == [pc |-> At(pc.stage, "failed"), issue |-> NoCall, idx |-> idx,
                 error |-> [kind |-> kind]]
NextRound == [pc |-> At(pc.stage, "loop"), issue |-> NoCall, idx |-> idx + 1, error |-> NoError]

Proceed(r) ==
    /\ pc' = r.pc
    /\ inflight' = r.issue
    /\ calls' = IF r.issue = NoCall THEN calls ELSE Append(calls, r.issue)
    /\ idx' = r.idx
    /\ error' = r.error

\* handleImportError that only logs the error
handleImportError_logsOnly(e) == [thrown |-> FALSE, error |-> NoError]

\* handleImportError: logs the error and throws it again.
handleImportError(e) == [thrown |-> TRUE, error |-> e]

\* The calls awaited without a .catch of their own: their rejection rejects
\* the importer as it is.
Uncaught == {"listLanguages", "modifyLanguage"}

\* processItem: hands the event to config.onImport, when one is configured.
processItem(log, title, type) ==
    IF config.onImport = "absent" THEN log ELSE Append(log, [title |-> title, type |-> type])

\* How a .then that called processItem ends: an Error config.onImport raises
\* rejects the promise and reaches the .catch that follows the .then.
Reported(next) ==
    IF config.onImport = "throws" /\ handleImportError([kind |-> "onImport"]).thrown
    THEN Thrown("onImport")
    ELSE next

\* An Error thrown inside importAsync rejects it.
Throw(kind) ==
    /\ pc' = At(pc.stage, "failed")
    /\ error' = [kind |-> kind]

\* importAsync returning at the first empty collection
Gate_emptyEndsRun(stage) ==
    /\ pc = At(stage, "gate")
    /\ IF Len(sourceData[stage]) > 0
       THEN pc' = At(stage, "loop") /\ idx' = 1 /\ localItems' = << >>
       ELSE pc' = At("done", "gate") /\ UNCHANGED << idx, localItems >>
    /\ UNCHANGED << sourceData, loaded, initialTarget, config, rejected, unsupportedBinaryFiles, notified, target,
                    importedItems, currentLanguages, inflight, calls, events, passes, error >>

\* importAsync's if (collection.length) { await importer } else { skip }
Gate(stage) ==
    /\ pc = At(stage, "gate")
    /\ IF Len(sourceData[stage]) > 0
       THEN pc' = At(stage, "loop") /\ idx' = 1 /\ localItems' = << >>
       ELSE pc' = At(After(stage), "gate") /\ UNCHANGED << idx, localItems >>
    /\ UNCHANGED << sourceData, loaded, initialTarget, config, rejected, unsupportedBinaryFiles, notified, target, importedItems, currentLanguages,
                    inflight, calls, events, passes, error >>

\* The importer returns its importedItems to importAsync.
Return(stage) ==
    /\ importedItems' = IF pushesResults(stage) THEN importedItems \o localItems ELSE importedItems
    /\ pc' = At(After(stage), "gate")

\* One round of an importer that sends one call per entity: the call for the
\* entity at idx, or the return once the loop is over.
SimpleLoop(stage, op) ==
    /\ pc = At(stage, "loop")
    /\ IF idx <= Len(sourceData[stage])
       THEN /\ Issue(Call(op, stage, sourceData[stage][idx].id, sourceData[stage][idx]))
            /\ UNCHANGED importedItems
       ELSE /\ Return(stage)
            /\ UNCHANGED << inflight, calls >>
    /\ UNCHANGED << sourceData, loaded, initialTarget, config, rejected, unsupportedBinaryFiles, notified, target, idx, localItems, currentLanguages,
                    events, passes, error >>

\* The .then of the call of a simple importer.
SimpleThen(stage, op, type) ==
    /\ pc = At(stage, "wait")
    /\ inflight.op = op
    /\ localItems' = Append(localItems, ImportItemResult(stage, inflight.key, NewId(inflight.key)))
    /\ events' = processItem(events, inflight.key, type)
    /\ Proceed(Reported(NextRound))
    /\ UNCHANGED << sourceData, loaded, initialTarget, config, rejected, unsupportedBinaryFiles, notified, target, importedItems, currentLanguages,
                    passes >>

----------------------------------------------------------------------------
(* Taxonomies, content-type snippets, content types *)

TaxonomiesStage == Gate("taxonomies")
importTaxonomiesAsync == SimpleLoop("taxonomies", "addTaxonomy")

\* the .then of addTaxonomy reporting the taxonomy under a tag of its own
addTaxonomyThen_taxonomyGroupTag == SimpleThen("taxonomies", "addTaxonomy", "taxonomyGroup")

addTaxonomyThen == SimpleThen("taxonomies", "addTaxonomy", "taxonomy")

ContentTypeSnippetsStage == Gate("contentTypeSnippets")
importContentTypeSnippetsAsync == SimpleLoop("contentTypeSnippets", "addContentTypeSnippet")
addContentTypeSnippetThen ==
    SimpleThen("contentTypeSnippets", "addContentTypeSnippet", "contentTypeSnippet")

ContentTypesStage == Gate("contentTypes")
importContentTypesAsync == SimpleLoop("contentTypes", "addContentType")
addContentTypeThen == SimpleThen("contentTypes", "addContentType", "contentType")

----------------------------------------------------------------------------
(* Content items *)

ContentItemsStage == Gate("contentItems")

importContentItemAsync ==
    /\ pc = At("contentItems", "loop")
    /\ IF idx <= Len(sourceData.contentItems)
       THEN LET contentItem == sourceData.contentItems[idx]
            IN  IF contentItem.type.codename = Undefined
                THEN /\ Throw("unsetTypeCodename")
                     /\ UNCHANGED << importedItems, inflight, calls >>
                ELSE /\ Issue(Call("addContentItem", "contentItems", contentItem.id,
                                   [codename |-> contentItem.codename,
                                    type |-> [codename |-> contentItem.type.codename]]))
                     /\ UNCHANGED << importedItems, error >>
       ELSE /\ Return("contentItems")
            /\ UNCHANGED << inflight, calls, error >>
    /\ UNCHANGED << sourceData, loaded, initialTarget, config, rejected, unsupportedBinaryFiles, notified, target, idx, localItems, currentLanguages,
                    events, passes >>

addContentItemThen == SimpleThen("contentItems", "addContentItem", "contentItem")

----------------------------------------------------------------------------
(* A call fails *)

\* The outstanding call fails: its .catch hands the error to
\* handleImportError.  (Were the error not thrown again, the await would
\* yield undefined and the importer would go on.)
CallRejected ==
    /\ inflight # NoCall
    /\ LET e == [kind |-> "remote", call |-> inflight]
           outcome == IF inflight.op \in Uncaught THEN [thrown |-> TRUE, error |-> e]
                      ELSE handleImportError(e)
       IN  IF outcome.thrown
           THEN /\ pc' = At(pc.stage, "failed")
                /\ error' = outcome.error
                /\ UNCHANGED << idx, importedItems >>
           ELSE IF inflight.op = "uploadBinaryFile"
           THEN /\ Throw("fileNotUploaded")
                /\ UNCHANGED << idx, importedItems >>
           ELSE IF inflight.op = "addAssetFolders"
           THEN /\ Return(pc.stage)
                /\ UNCHANGED << idx, error >>
           ELSE /\ pc' = At(pc.stage, "loop")
                /\ idx' = idx + 1
                /\ UNCHANGED << importedItems, error >>
    /\ inflight' = NoCall
    /\ rejected' = inflight
    /\ UNCHANGED << sourceData, loaded, initialTarget, config, unsupportedBinaryFiles, notified, target, localItems,
                    currentLanguages, calls, events, passes >>

----------------------------------------------------------------------------
(* Asset folders *)

RECURSIVE setExternalIdForFolders(_)
setExternalIdForFolders(folders) ==
    [i \in 1..Len(folders) |->
        [folders[i] EXCEPT !.external_id = folders[i].id,
                           !.folders = setExternalIdForFolders(folders[i].folders)]]

RECURSIVE mapAssetFolder(_)
mapAssetFolder(folder) ==
    [ external_id |-> folder.external_id,
      folders |-> [i \in 1..Len(folder.folders) |-> mapAssetFolder(folder.folders[i])] ]

RECURSIVE flattenAssetFolderContracts(_, _)
\* Pre-order: a folder, then the folders inside it.
flattenAssetFolderContracts(assetFolders, flattened) ==
    IF Len(assetFolders) = 0 THEN flattened
    ELSE flattenAssetFolderContracts(Tail(assetFolders),
            LET pushed == Append(flattened, Head(assetFolders))
            IN  IF Len(Head(assetFolders).folders) > 0
                THEN flattenAssetFolderContracts(Head(assetFolders).folders, pushed)
                ELSE pushed)

\* flattenAssetFolders that does not descend into assetFolder.folders
flattenAssetFolders_topLevelOnly(importedAssetFolders, originalItems, items) ==
    [ thrown |-> \E i \in 1..Len(importedAssetFolders) : \A j \in 1..Len(originalItems) :
                    originalItems[j].external_id # importedAssetFolders[i].externalId,
      items |-> items.items \o
                [i \in 1..Len(importedAssetFolders) |->
                    ImportItemResult("assetFolders", importedAssetFolders[i].externalId,
                                     importedAssetFolders[i].id)] ]

RECURSIVE flattenAssetFolders_skipsUnknown(_, _, _)
\* flattenAssetFolders that passes over a folder it cannot match
flattenAssetFolders_skipsUnknown(importedAssetFolders, originalItems, items) ==
    IF Len(importedAssetFolders) = 0 THEN items
    ELSE LET assetFolder == Head(importedAssetFolders)
             j == FindIdx(originalItems, LAMBDA m : m.external_id = assetFolder.externalId)
             pushed == IF j = 0 THEN items
                       ELSE [items EXCEPT !.items = Append(@,
                                ImportItemResult("assetFolders", originalItems[j].id,
                                                 assetFolder.id))]
             inner == IF Len(assetFolder.folders) > 0
                      THEN flattenAssetFolders_skipsUnknown(assetFolder.folders,
                                                            originalItems, pushed)
                      ELSE pushed
         IN  flattenAssetFolders_skipsUnknown(Tail(importedAssetFolders), originalItems, inner)

RECURSIVE flattenAssetFolders(_, _, _)
\* items is [thrown, items]: the results pushed so far, and whether a folder
\* of the response matched no original folder.
flattenAssetFolders(importedAssetFolders, originalItems, items) ==
    IF items.thrown \/ Len(importedAssetFolders) = 0 THEN items
    ELSE LET assetFolder == Head(importedAssetFolders)
             j == FindIdx(originalItems, LAMBDA m : m.external_id = assetFolder.externalId)
         IN  IF j = 0 THEN [items EXCEPT !.thrown = TRUE]
             ELSE LET pushed == [items EXCEPT !.items = Append(@,
                                    ImportItemResult("assetFolders", originalItems[j].id,
                                                     assetFolder.id))]
                      inner == IF Len(assetFolder.folders) > 0
                               THEN flattenAssetFolders(assetFolder.folders, originalItems, pushed)
                               ELSE pushed
                  IN  flattenAssetFolders(Tail(importedAssetFolders), originalItems, inner)

RECURSIVE Mirror(_)
\* The folders the target creates from the submitted ones.
Mirror(folders) ==
    [i \in 1..Len(folders) |->
        [ id |-> NewId(folders[i].external_id), externalId |-> folders[i].external_id,
          folders |-> Mirror(folders[i].folders) ]]

\* A folder the target holds that the source does not know.
ForeignFolder == [id |-> 990, externalId |-> 99, folders |-> << >>]

\* What the target may answer addAssetFolders with: the folders created,
\* alone or with a folder of its own beside or inside them.
FolderResponses(submitted) ==
    LET m == Mirror(submitted)
    IN  { m, Append(m, ForeignFolder),
          [m EXCEPT ![1].folders = Append(@, ForeignFolder)] }

AssetFoldersStage ==
    /\ pc = At("assetFolders", "gate")
    /\ IF Len(sourceData.assetFolders) > 0
       THEN LET folders == setExternalIdForFolders(sourceData.assetFolders)
            IN  /\ sourceData' = [sourceData EXCEPT !.assetFolders = folders]
                /\ Issue(Call("addAssetFolders", "assetFolders", 0,
                              [i \in 1..Len(folders) |-> mapAssetFolder(folders[i])]))
                /\ localItems' = << >>
       ELSE /\ pc' = At(After("assetFolders"), "gate")
            /\ UNCHANGED << sourceData, localItems, inflight, calls >>
    /\ UNCHANGED << loaded, initialTarget, config, rejected, unsupportedBinaryFiles, notified, target, idx, importedItems,
                    currentLanguages, events, passes, error >>

RECURSIVE processItems(_, _, _)
\* processItem for every result of a list, in order
processItems(log, results, type) ==
    IF Len(results) = 0 THEN log
    ELSE processItems(processItem(log, Head(results).originalId, type), Tail(results), type)

\* The .then of addAssetFolders; an Error thrown inside it reaches the .catch
\* that follows it.  The importer then returns.
addAssetFoldersResponse(response) ==
    /\ pc = At("assetFolders", "wait")
    /\ inflight.op = "addAssetFolders"
    /\ LET flattenedAssetFolderContracts ==
                flattenAssetFolderContracts(sourceData.assetFolders, << >>)
            flat == flattenAssetFolders(response, flattenedAssetFolderContracts,
                                        [thrown |-> FALSE, items |-> << >>])
            outcome == handleImportError([kind |-> "folderNotFound"])
            reported == Reported(NextRound)
        IN  IF flat.thrown /\ outcome.thrown
            THEN /\ pc' = At("assetFolders", "failed")
                 /\ error' = outcome.error
                 /\ UNCHANGED << localItems, importedItems, events >>
            ELSE IF ~flat.thrown /\ Len(flat.items) > 0 /\ reported.error # NoError
            THEN \* the first folder is pushed and reported; config.onImport raises
                 /\ localItems' = << flat.items[1] >>
                 /\ events' = processItem(events, flat.items[1].originalId, "assetFolder")
                 /\ pc' = reported.pc
                 /\ error' = reported.error
                 /\ UNCHANGED importedItems
            ELSE /\ localItems' = IF flat.thrown THEN localItems ELSE flat.items
                 /\ events' = IF flat.thrown THEN events
                              ELSE processItems(events, flat.items, "assetFolder")
                 /\ importedItems' = IF pushesResults("assetFolders") /\ ~flat.thrown
                                     THEN importedItems \o flat.items ELSE importedItems
                 /\ pc' = At(After("assetFolders"), "gate")
                 /\ UNCHANGED error
    /\ inflight' = NoCall
    /\ UNCHANGED << sourceData, loaded, initialTarget, config, rejected, unsupportedBinaryFiles, notified, target, idx,
                    currentLanguages, calls, passes >>

\* addAssetFolders is acknowledged with one of the answers of the target.
addAssetFoldersThen ==
    /\ pc = At("assetFolders", "wait")
    /\ inflight.op = "addAssetFolders"
    /\ \E response \in FolderResponses(inflight.data) : addAssetFoldersResponse(response)

----------------------------------------------------------------------------
(* Languages *)

\* tryGetLanguage that looks for the existing language by id
tryGetLanguage_matchesById(languages, importLanguage) ==
    IF FindIdx(languages, LAMBDA m : m.id = importLanguage.id) # 0
    THEN [result |-> "noImport"]
    ELSE [ result |-> "data",
           data |-> [ codename |-> importLanguage.codename,
                      fallback_language |-> [id |-> defaultLanguageId],
                      is_active |-> importLanguage.is_active ] ]

\* tryGetLanguage that sends the sentinel id for every language whose
\* fallback is the default language
tryGetLanguage_sentinelForDefault(languages, importLanguage) ==
    LET existingLanguage == FindIdx(languages, LAMBDA m : m.codename = importLanguage.codename)
        defaultCurrentLanguage == FindIdx(languages, LAMBDA m : m.id = defaultLanguageId)
        fallbackLanguageCodename == importLanguage.fallback_language.codename
    IN  IF existingLanguage # 0 THEN [result |-> "noImport"]
        ELSE IF /\ importLanguage.id = defaultLanguageId
                /\ defaultCurrentLanguage # 0
                /\ languages[defaultCurrentLanguage].codename # importLanguage.codename
        THEN [result |-> "throw", error |-> "defaultLanguageMismatch"]
        ELSE IF fallbackLanguageCodename = Undefined
        THEN [result |-> "throw", error |-> "unsetCodename"]
        ELSE [ result |-> "data",
               data |-> [ codename |-> importLanguage.codename,
                          fallback_language |->
                              IF importLanguage.fallback_language.id = defaultLanguageId
                              THEN [id |-> defaultLanguageId]
                              ELSE [codename |-> fallbackLanguageCodename],
                          is_active |-> importLanguage.is_active ] ]

\* tryGetLanguage: 'noImport', an Error, or the data of addLanguage
tryGetLanguage(languages, importLanguage) ==
    LET existingLanguage == FindIdx(languages, LAMBDA m : m.codename = importLanguage.codename)
        defaultCurrentLanguage == FindIdx(languages, LAMBDA m : m.id = defaultLanguageId)
        fallbackLanguageCodename == importLanguage.fallback_language.codename
    IN  IF existingLanguage # 0 THEN [result |-> "noImport"]
        ELSE IF /\ importLanguage.id = defaultLanguageId
                /\ defaultCurrentLanguage # 0
                /\ languages[defaultCurrentLanguage].codename # importLanguage.codename
        THEN [result |-> "throw", error |-> "defaultLanguageMismatch"]
        ELSE IF fallbackLanguageCodename = Undefined
        THEN [result |-> "throw", error |-> "unsetCodename"]
        ELSE [ result |-> "data",
               data |-> [ codename |-> importLanguage.codename,
                          fallback_language |->
                              IF importLanguage.codename = fallbackLanguageCodename
                              THEN [id |-> defaultLanguageId]
                              ELSE [codename |-> fallbackLanguageCodename],
                          is_active |-> importLanguage.is_active ] ]

\* importLanguagesAsync from tryGetLanguage on: skip the language, throw, or
\* await addLanguage.
tryAndAdd(languages, language) ==
    LET processedLanguageData == tryGetLanguage(languages, language)
    IN  IF processedLanguageData.result = "noImport" THEN NextRound
        ELSE IF processedLanguageData.result = "throw" THEN Thrown(processedLanguageData.error)
        ELSE Issued(Call("addLanguage", "languages", language.id, processedLanguageData.data))

listLanguages(why) == Call("listLanguages", "languages", 0, why)

\* fixLanguageAsync after the activation: the codename of the default
\* language; then importLanguagesAsync reloads the languages.
fixDefaultLanguage(languages, importLanguage) ==
    LET defaultExistingLanguage == FindIdx(languages, LAMBDA m : m.id = importLanguage.id)
    IN  IF ~importLanguage.is_default THEN Issued(listLanguages("reload"))
        ELSE IF defaultExistingLanguage = 0 THEN Thrown("invalidDefaultLanguage")
        ELSE IF /\ importLanguage.codename # languages[defaultExistingLanguage].codename
                /\ FindIdx(languages, LAMBDA m : m.codename = importLanguage.codename) = 0
        THEN Issued(Call("modifyLanguage", "languages",
                         languages[defaultExistingLanguage].codename,
                         [property_name |-> "codename", value |-> importLanguage.codename]))
        ELSE Issued(listLanguages("reload"))

\* fixLanguageAsync that leaves an inactive language as it is
fixLanguageAsync_noActivation(languages, importLanguage) ==
    fixDefaultLanguage(languages, importLanguage)

\* fixLanguageAsync up to its first await: an inactive language of the same
\* codename is activated.
fixLanguageAsync(languages, importLanguage) ==
    LET existingLanguage == FindIdx(languages, LAMBDA m : m.codename = importLanguage.codename)
    IN  IF existingLanguage # 0 /\ ~languages[existingLanguage].isActive
        THEN Issued(Call("modifyLanguage", "languages", languages[existingLanguage].codename,
                         [property_name |-> "is_active", value |-> TRUE]))
        ELSE fixDefaultLanguage(languages, importLanguage)

LanguagesStage ==
    /\ pc = At("languages", "gate")
    /\ IF Len(sourceData.languages) > 0
       THEN /\ Issue(listLanguages("first"))
            /\ idx' = 1
            /\ localItems' = << >>
       ELSE /\ pc' = At(After("languages"), "gate")
            /\ UNCHANGED << idx, localItems, inflight, calls >>
    /\ UNCHANGED << sourceData, loaded, initialTarget, config, rejected, unsupportedBinaryFiles, notified, target, importedItems,
                    currentLanguages, events, passes, error >>

\* One round of the loop over the languages, up to its first await.
importLanguagesAsync ==
    /\ pc = At("languages", "loop")
    /\ IF idx <= Len(sourceData.languages)
       THEN /\ Proceed(IF config.fixLanguages
                       THEN fixLanguageAsync(currentLanguages, sourceData.languages[idx])
                       ELSE tryAndAdd(currentLanguages, sourceData.languages[idx]))
            /\ UNCHANGED importedItems
       ELSE /\ Return("languages")
            /\ UNCHANGED << inflight, calls, idx, error >>
    /\ UNCHANGED << sourceData, loaded, initialTarget, config, rejected, unsupportedBinaryFiles, notified, target, localItems,
                    currentLanguages, events, passes >>

\* listLanguages is answered with the languages of the target.
listLanguagesThen ==
    /\ pc = At("languages", "wait")
    /\ inflight.op = "listLanguages"
    /\ currentLanguages' = target.languages
    /\ IF inflight.data = "first"
       THEN /\ pc' = At("languages", "loop")
            /\ inflight' = NoCall
            /\ UNCHANGED << calls, idx, error >>
       ELSE Proceed(tryAndAdd(target.languages, sourceData.languages[idx]))
    /\ UNCHANGED << sourceData, loaded, initialTarget, config, rejected, unsupportedBinaryFiles, notified, target, importedItems,
                    localItems, events, passes >>

\* modifyLanguage is acknowledged: the target has activated the language, or
\* renamed its default language.  fixLanguageAsync goes on with the list
\* it was given.
modifyLanguageThen ==
    /\ pc = At("languages", "wait")
    /\ inflight.op = "modifyLanguage"
    /\ target' = [target EXCEPT !.languages = [i \in 1..Len(@) |->
            IF @[i].codename # inflight.key THEN @[i]
            ELSE IF inflight.data.property_name = "is_active"
                 THEN [@[i] EXCEPT !.isActive = inflight.data.value]
                 ELSE [@[i] EXCEPT !.codename = inflight.data.value]]]
    /\ Proceed(IF inflight.data.property_name = "is_active"
               THEN fixDefaultLanguage(currentLanguages, sourceData.languages[idx])
               ELSE Issued(listLanguages("reload")))
    /\ UNCHANGED << sourceData, loaded, initialTarget, config, rejected, unsupportedBinaryFiles, notified, importedItems,
                    localItems, currentLanguages, events, passes >>

\* The .then of addLanguage: the target holds the new language.
addLanguageThen ==
    /\ pc = At("languages", "wait")
    /\ inflight.op = "addLanguage"
    /\ target' = [target EXCEPT !.languages = Append(@,
            TargetLanguage(NewId(inflight.key), inflight.data.codename, inflight.data.is_active))]
    /\ localItems' = Append(localItems,
            ImportItemResult("languages", inflight.key, NewId(inflight.key)))
    /\ events' = processItem(events, inflight.key, "language")
    /\ Proceed(Reported(NextRound))
    /\ UNCHANGED << sourceData, loaded, initialTarget, config, rejected, unsupportedBinaryFiles, notified, importedItems,
                    currentLanguages, passes >>

----------------------------------------------------------------------------
(* replaceIdReferencesWithNewId: original ids become the ids of the ledger *)

\* The index of the ledger's entry for an original id (0: none)
tryFindNewId(id, items) == FindIdx(items, LAMBDA m : m.originalId = id)

\* An id as it is after the pass: the importId of its entry, or itself.
newId(id, items) ==
    IF tryFindNewId(id, items) = 0 THEN id ELSE items[tryFindNewId(id, items)].importId

\* A reference to an entity of the source that the ledger cannot resolve.
unresolvable(id, items) == id # NoId /\ tryFindNewId(id, items) = 0

\* The id the target gives an uploaded binary file.
FileId(assetId) == assetId + 200

\* getAddAssetModel that refers to the file by the id of the source asset
getAddAssetModel_sourceReference(assetContract, binaryFileId, currentItems) ==
    [ thrown |-> unresolvable(assetContract.folder.id, currentItems),
      model |-> [ file_reference |-> [id |-> newId(assetContract.id, currentItems)],
                  folder |-> [id |-> newId(assetContract.folder.id, currentItems)] ] ]

\* getAddAssetModel: [thrown, model]
getAddAssetModel(assetContract, binaryFileId, currentItems) ==
    [ thrown |-> unresolvable(assetContract.folder.id, currentItems),
      model |-> [ file_reference |-> [id |-> newId(binaryFileId, currentItems)],
                  folder |-> [id |-> newId(assetContract.folder.id, currentItems)] ] ]

\* A language variant after the pass: [thrown, variant]
replaceIdReferencesWithNewId(languageVariant, currentItems) ==
    LET elements == languageVariant.elements
    IN  [ thrown |-> \E e \in 1..Len(elements) : \E j \in 1..Len(elements[e].value) :
                        unresolvable(elements[e].value[j].id, currentItems),
          variant |->
            [ languageVariant EXCEPT
                !.item.id = newId(@, currentItems),
                !.language.id = newId(@, currentItems),
                !.workflow_step.id = newId(@, currentItems),
                !.elements = [e \in 1..Len(elements) |->
                    [value |-> [j \in 1..Len(elements[e].value) |->
                        [id |-> newId(elements[e].value[j].id, currentItems)]]]] ] ]

----------------------------------------------------------------------------
(* Assets *)

\* The list importAsync hands to the asset and the variant importer as
\* currentItems: its own importedItems, which holds what the importers that
\* have returned recorded, and nothing of the importer that is running.
currentItems == importedItems

AssetsStage == Gate("assets")

\* the size test with the ceiling itself still allowed
exceedsMaxSize_aboveCeilingOnly(binaryFile) ==
    binaryFile.asset.size > maxAllowedAssetSizeInBytes

\* binaryFile.asset.size >= this.maxAllowedAssetSizeInBytes
exceedsMaxSize(binaryFile) == binaryFile.asset.size >= maxAllowedAssetSizeInBytes

\* a lookup that falls back to the first binary file
findBinaryFile_firstWhenMissing(binaryFiles, asset) ==
    IF FindIdx(binaryFiles, LAMBDA m : m.asset.id = asset.id) = 0 /\ Len(binaryFiles) > 0
    THEN 1
    ELSE FindIdx(binaryFiles, LAMBDA m : m.asset.id = asset.id)

\* binaryFiles.find((m) => m.asset.id === asset.id), as an index (0: undefined)
findBinaryFile(binaryFiles, asset) == FindIdx(binaryFiles, LAMBDA m : m.asset.id = asset.id)

\* One round of the loop over the assets, up to the await of the upload.
importAssetsAsync ==
    /\ pc = At("assets", "loop")
    /\ IF idx <= Len(sourceData.assets)
       THEN LET asset == sourceData.assets[idx]
                b == findBinaryFile(sourceData.binaryFiles, asset)
                binaryFile == sourceData.binaryFiles[b]
                tooLarge == exceedsMaxSize(binaryFile)
            IN  IF b = 0
                THEN /\ Proceed(Thrown("binaryFileNotFound"))
                     /\ UNCHANGED << unsupportedBinaryFiles, notified, importedItems >>
                ELSE IF tooLarge /\ config.onUnsupportedBinaryFile = "throws"
                THEN \* the callback raises inside the loop: the importer rejects
                     /\ notified' = Append(notified, binaryFile)
                     /\ Proceed(Thrown("onUnsupportedBinaryFile"))
                     /\ UNCHANGED << unsupportedBinaryFiles, importedItems >>
                ELSE /\ notified' =
                            IF tooLarge /\ config.onUnsupportedBinaryFile = "present"
                            THEN Append(notified, binaryFile) ELSE notified
                     /\ unsupportedBinaryFiles' =
                            IF tooLarge THEN Append(unsupportedBinaryFiles, binaryFile)
                            ELSE unsupportedBinaryFiles
                     /\ Proceed(Issued(Call("uploadBinaryFile", "assets", asset.id,
                            [binaryData |-> IF tooLarge THEN "empty" ELSE binaryFile.binaryData])))
                     /\ UNCHANGED importedItems
       ELSE /\ Return("assets")
            /\ UNCHANGED << unsupportedBinaryFiles, notified, inflight, calls, idx, error >>
    /\ UNCHANGED << sourceData, loaded, initialTarget, config, rejected, target, localItems, currentLanguages,
                    events, passes >>

\* The upload is acknowledged: the asset is created with the id of the file.
uploadBinaryFileThen ==
    /\ pc = At("assets", "wait")
    /\ inflight.op = "uploadBinaryFile"
    /\ LET assetData == getAddAssetModel(sourceData.assets[idx], FileId(inflight.key),
                                         currentItems)
       IN  Proceed(IF assetData.thrown THEN Thrown("unresolvedReference")
                   ELSE Issued(Call("addAsset", "assets", inflight.key, assetData.model)))
    /\ UNCHANGED << sourceData, loaded, initialTarget, config, rejected, unsupportedBinaryFiles, notified, target, importedItems,
                    localItems, currentLanguages, events, passes >>

addAssetThen == SimpleThen("assets", "addAsset", "asset")

----------------------------------------------------------------------------
(* Language variants *)

\* if (sourceData.importData.languageVariants): an array, empty or not
LanguageVariantsStage ==
    /\ pc = At("languageVariants", "gate")
    /\ pc' = At("languageVariants", "loop")
    /\ idx' = 1
    /\ localItems' = << >>
    /\ UNCHANGED << sourceData, loaded, initialTarget, config, rejected, unsupportedBinaryFiles, notified, target, importedItems,
                    currentLanguages, inflight, calls, events, passes, error >>

\* The id of the content item the target holds under a codename.
TargetItemId(codename) ==
    NewId(loaded.contentItems[FindIdx(loaded.contentItems, LAMBDA m : m.codename = codename)].id)

\* One round of the loop over the variants, up to the await of the upsert.
importLanguageVariantsAsync ==
    /\ pc = At("languageVariants", "loop")
    /\ IF idx <= Len(sourceData.languageVariants)
       THEN LET languageVariant == sourceData.languageVariants[idx]
                replaced == replaceIdReferencesWithNewId(languageVariant, currentItems)
            IN  IF languageVariant.item.codename = Undefined
                THEN /\ Proceed(Thrown("missingItemCodename"))
                     /\ UNCHANGED << sourceData, importedItems >>
                ELSE IF languageVariant.language.codename = Undefined
                THEN /\ Proceed(Thrown("missingLanguageCodename"))
                     /\ UNCHANGED << sourceData, importedItems >>
                ELSE IF replaced.thrown
                THEN /\ Proceed(Thrown("unresolvedReference"))
                     /\ UNCHANGED << sourceData, importedItems >>
                ELSE /\ sourceData' = [sourceData EXCEPT !.languageVariants[idx] = replaced.variant]
                     /\ Proceed(Issued(Call("upsertLanguageVariant", "languageVariants",
                            << languageVariant.item.codename, languageVariant.language.codename >>,
                            replaced.variant.elements)))
                     /\ UNCHANGED importedItems
       ELSE /\ Return("languageVariants")
            /\ UNCHANGED << sourceData, inflight, calls, idx, error >>
    /\ UNCHANGED << loaded, initialTarget, config, rejected, unsupportedBinaryFiles, notified, target, localItems, currentLanguages,
                    events, passes >>

upsertLanguageVariantThen ==
    /\ pc = At("languageVariants", "wait")
    /\ inflight.op = "upsertLanguageVariant"
    /\ localItems' = Append(localItems,
            ImportItemResult("languageVariants", sourceData.languageVariants[idx].item.id,
                             TargetItemId(inflight.key[1])))
    /\ events' = processItem(events, inflight.key, "languageVariant")
    /\ Proceed(Reported(NextRound))
    /\ UNCHANGED << sourceData, loaded, initialTarget, config, rejected, unsupportedBinaryFiles, notified, target, importedItems,
                    currentLanguages, passes >>

----------------------------------------------------------------------------
(* Publishing and the move to a workflow step *)

getPublishedWorkflowStep(workflowSteps) ==
    FindIdx(workflowSteps, LAMBDA m : m.name = publishedWorkflowStepName)

\* publishLanguageVariantsAsync publishing every variant
itemsToPublish_everyVariant(languageVariants, workflowSteps) == languageVariants

\* The variants publishLanguageVariantsAsync publishes.
itemsToPublish(languageVariants, workflowSteps) ==
    LET publishedWorkflowStep == getPublishedWorkflowStep(workflowSteps)
    IN  IF publishedWorkflowStep = 0 THEN << >>
        ELSE Filter(languageVariants,
                    LAMBDA m : m.workflow_step.id = workflowSteps[publishedWorkflowStep].id)

\* if (this.config.enablePublish)
PublishStage ==
    /\ pc = At("publish", "gate")
    /\ IF config.enablePublish
       THEN pc' = At("publish", "loop") /\ idx' = 1
       ELSE pc' = At(After("publish"), "gate") /\ UNCHANGED idx
    /\ UNCHANGED << sourceData, loaded, initialTarget, config, rejected, unsupportedBinaryFiles, notified, target, importedItems,
                    localItems, currentLanguages, inflight, calls, events, passes, error >>

\* One call for the variant at idx of `list`, keyed by its codenames, or
\* the end of the pass.
VariantCallLoop(stage, op, list, data) ==
    /\ pc = At(stage, "loop")
    /\ IF idx <= Len(list)
       THEN Proceed(IF list[idx].item.codename = Undefined THEN Thrown("missingItemCodename")
                    ELSE IF list[idx].language.codename = Undefined
                    THEN Thrown("missingLanguageCodename")
                    ELSE Issued(Call(op, stage,
                            << list[idx].item.codename, list[idx].language.codename >>, data)))
       ELSE /\ pc' = At(After(stage), "gate")
            /\ UNCHANGED << inflight, calls, idx, error >>
    /\ UNCHANGED << sourceData, loaded, initialTarget, config, rejected, unsupportedBinaryFiles, notified, target, importedItems,
                    localItems, currentLanguages, events, passes >>

VariantCallThen(stage, op, type) ==
    /\ pc = At(stage, "wait")
    /\ inflight.op = op
    /\ events' = processItem(events, inflight.key, type)
    /\ Proceed(Reported(NextRound))
    /\ UNCHANGED << sourceData, loaded, initialTarget, config, rejected, unsupportedBinaryFiles, notified, target, importedItems,
                    localItems, currentLanguages, passes >>

publishLanguageVariantsAsync ==
    VariantCallLoop("publish", "publishLanguageVariant",
                    itemsToPublish(sourceData.languageVariants, sourceData.workflowSteps), << >>)

publishLanguageVariantThen == VariantCallThen("publish", "publishLanguageVariant", "publish")

\* the move to the workflow step run whatever the configuration says
ChangeWorkflowStepStage_ignoresConfig ==
    /\ pc = At("changeWorkflowStep", "gate")
    /\ pc' = At("changeWorkflowStep", "loop")
    /\ idx' = 1
    /\ UNCHANGED << sourceData, loaded, initialTarget, config, rejected, unsupportedBinaryFiles,
                    notified, target, importedItems, localItems, currentLanguages, inflight,
                    calls, events, passes, error >>

\* if (this.config.workflowIdForImportedItems)
ChangeWorkflowStepStage ==
    /\ pc = At("changeWorkflowStep", "gate")
    /\ IF config.workflowIdForImportedItems # NoId
       THEN pc' = At("changeWorkflowStep", "loop") /\ idx' = 1
       ELSE pc' = At(After("changeWorkflowStep"), "gate") /\ UNCHANGED idx
    /\ UNCHANGED << sourceData, loaded, initialTarget, config, rejected, unsupportedBinaryFiles, notified, target, importedItems,
                    localItems, currentLanguages, inflight, calls, events, passes, error >>

moveLanguageVariantsToCustomWorkflowStepAsync ==
    VariantCallLoop("changeWorkflowStep", "changeWorkflowStepOfLanguageVariant",
                    sourceData.languageVariants, config.workflowIdForImportedItems)

changeWorkflowStepThen ==
    VariantCallThen("changeWorkflowStep", "changeWorkflowStepOfLanguageVariant",
                    "changeWorkflowStep")

----------------------------------------------------------------------------
(* The run *)

Next ==
    \/ TranslateIds
    \/ RemoveSkippedItemsFromImport
    \/ AssetFoldersStage
    \/ addAssetFoldersThen
    \/ LanguagesStage
    \/ importLanguagesAsync
    \/ listLanguagesThen
    \/ modifyLanguageThen
    \/ addLanguageThen
    \/ TaxonomiesStage
    \/ importTaxonomiesAsync
    \/ addTaxonomyThen
    \/ ContentTypeSnippetsStage
    \/ importContentTypeSnippetsAsync
    \/ addContentTypeSnippetThen
    \/ ContentTypesStage
    \/ importContentTypesAsync
    \/ addContentTypeThen
    \/ AssetsStage
    \/ importAssetsAsync
    \/ uploadBinaryFileThen
    \/ addAssetThen
    \/ ContentItemsStage
    \/ importContentItemAsync
    \/ addContentItemThen
    \/ LanguageVariantsStage
    \/ importLanguageVariantsAsync
    \/ upsertLanguageVariantThen
    \/ PublishStage
    \/ publishLanguageVariantsAsync
    \/ publishLanguageVariantThen
    \/ ChangeWorkflowStepStage
    \/ moveLanguageVariantsToCustomWorkflowStepAsync
    \/ changeWorkflowStepThen
    \/ CallRejected

Spec == Init /\ [][Next]_vars

\* Every awaited call settles and the event loop runs every continuation
\* that is ready: no step that can be taken is put off for ever.
FairSpec == Spec /\ WF_vars(Next)

\* importAsync has returned importedItems / has been rejected.
Done == pc.stage = "done"
Failed == pc.at = "failed"

----------------------------------------------------------------------------
(* Properties *)

\* The ledger as an importer sees it while it runs: what importAsync holds
\* and what the importer has recorded itself.
Ledger == importedItems \o localItems

\* Call i of the run has been acknowledged.
Acknowledged(i) == i < Len(calls) \/ (inflight = NoCall /\ rejected = NoCall)

CallsOf(stage) == {i \in 1..Len(calls) : calls[i].stage = stage}

\* The calls that create one entity each, named by the entity's id.
EntityOps == { "addLanguage", "addTaxonomy", "addContentTypeSnippet", "addContentType",
               "addAsset", "addContentItem" }
CreateOps == EntityOps \cup {"addAssetFolders", "uploadBinaryFile", "upsertLanguageVariant"}

Filtered == \E i \in 1..Len(passes) : passes[i] = "removeSkippedItemsFromImport"
Translated == \E i \in 1..Len(passes) : passes[i] = "translateIds"

Ids(list) == [i \in 1..Len(list) |-> list[i].id]

StageOrder ==
    << "assetFolders", "languages", "taxonomies", "contentTypeSnippets", "contentTypes",
       "assets", "contentItems", "languageVariants", "publish", "changeWorkflowStep" >>

Rank(stage) == Position(StageOrder, stage)

\* C1: the network calls follow the order asset folders, languages,
\* taxonomies, snippets, types, assets, items, variants, publish, workflow
\* step: no call of a stage is issued after a call of a later stage.
C1_CallsFollowStageOrder ==
    \A i, j \in 1..Len(calls) : i < j => Rank(calls[i].stage) <= Rank(calls[j].stage)

\* A run that has returned after calls of every one of the ten stages.
C1_Witness == Done /\ \A k \in 1..Len(StageOrder) : CallsOf(StageOrder[k]) # {}

\* The event type processItem is given after a call.
EventType(op) ==
    CASE op = "addLanguage" -> "language"
      [] op = "addTaxonomy" -> "taxonomy"
      [] op = "addContentTypeSnippet" -> "contentTypeSnippet"
      [] op = "addContentType" -> "contentType"
      [] op = "addAsset" -> "asset"
      [] op = "uploadBinaryFile" -> "asset"
      [] op = "addContentItem" -> "contentItem"
      [] op = "upsertLanguageVariant" -> "languageVariant"
      [] op = "publishLanguageVariant" -> "publish"
      [] op = "changeWorkflowStepOfLanguageVariant" -> "changeWorkflowStep"
      [] OTHER -> "assetFolder"

\* The rejected call has left no entry in the ledger and no event.
NothingRecordedFor(call) ==
    /\ call.op \in EntityOps \cup {"uploadBinaryFile"} =>
          \A i \in 1..Len(Ledger) :
              ~(Ledger[i].kind = call.stage /\ Ledger[i].originalId = call.key)
    /\ call.op = "addAssetFolders" =>
          \A i \in 1..Len(Ledger) : Ledger[i].kind # "assetFolders"
    /\ call.op = "upsertLanguageVariant" =>
          Cardinality({i \in 1..Len(Ledger) : Ledger[i].kind = "languageVariants"})
              = Cardinality({i \in 1..Len(calls) : calls[i].op = call.op}) - 1
    /\ call.op \notin {"addAssetFolders", "listLanguages", "modifyLanguage"} =>
          \A i \in 1..Len(events) :
              ~(events[i].type = EventType(call.op) /\ events[i].title = call.key)
    /\ call.op = "addAssetFolders" =>
          \A i \in 1..Len(events) : events[i].type # "assetFolder"

\* C2: once a call against the target has failed, importAsync is rejected
\* with that error and returns no result list, the failed call is the last
\* call issued, and the failed entity has no ledger entry and no event.
C2_FailedCallAbortsRun ==
    rejected # NoCall =>
        /\ Failed
        /\ ~Done
        /\ error = [kind |-> "remote", call |-> rejected]
        /\ calls[Len(calls)] = rejected
        /\ inflight = NoCall
        /\ NothingRecordedFor(rejected)

\* The addTaxonomy call of the second taxonomy was rejected after the first
\* taxonomy had been imported.
C2_Witness ==
    /\ rejected # NoCall
    /\ rejected.op = "addTaxonomy"
    /\ Len(localItems) = 1
    /\ Failed

\* The ids of a forest of folders, in pre-order.
FolderIds(folders) == Ids(flattenAssetFolderContracts(folders, << >>))

\* The run is inside the importer of a stage.
Importing(stage) == pc.stage = stage /\ pc.at \in {"loop", "wait"}

\* C3: for every entity whose create call was acknowledged, the ledger
\* handed to every later-stage importer (importAsync's importedItems) maps
\* the entity's originalId to its importedId while that importer runs.
C3_LedgerHoldsEveryEarlierEntity ==
    \A k \in 1..Len(StageOrder) :
        Importing(StageOrder[k]) =>
            \A i \in 1..Len(calls) :
                (Rank(calls[i].stage) < k /\ Acknowledged(i)) =>
                    /\ calls[i].op \in EntityOps =>
                          \E e \in 1..Len(importedItems) :
                              /\ importedItems[e].originalId = calls[i].key
                              /\ importedItems[e].importId = NewId(calls[i].key)
                    /\ calls[i].op = "addAssetFolders" =>
                          \A f \in Range(FolderIds(sourceData.assetFolders)) :
                              \E e \in 1..Len(importedItems) :
                                  /\ importedItems[e].originalId = f
                                  /\ importedItems[e].importId = NewId(f)

\* The default language of a list of languages (0: none)
DefaultOf(languages) == FindIdx(languages, LAMBDA m : m.id = defaultLanguageId)

\* The source's default language is named differently from the target's.
DefaultLanguageMismatch ==
    /\ DefaultOf(loaded.languages) # 0
    /\ loaded.languages[DefaultOf(loaded.languages)].codename
          # target.languages[DefaultOf(target.languages)].codename

\* C4: with fixLanguages disabled, a run whose source default language is
\* named differently from the target's default language never completes.
C4_MismatchNeverCompletes ==
    (~config.fixLanguages /\ DefaultLanguageMismatch) => ~Done

\* C5, as claimed: when the default-language mismatch is raised, no create
\* call of any stage has been issued.
C5_NoCreateCallBeforeMismatch ==
    error.kind = "defaultLanguageMismatch" =>
        \A i \in 1..Len(calls) : calls[i].op \notin CreateOps

\* C5, amended: when the default-language mismatch is raised, no call of a
\* stage after the languages has been issued; the calls issued are the
\* asset-folder call and calls of the language stage.
C5_NoLaterStageCallBeforeMismatch ==
    error.kind = "defaultLanguageMismatch" =>
        /\ ~config.fixLanguages
        /\ Failed
        /\ \A i \in 1..Len(calls) : calls[i].stage \in {"assetFolders", "languages"}

\* The mismatch is raised after the asset folders and a language listed
\* before the default language were created.
C5_Witness ==
    /\ error.kind = "defaultLanguageMismatch"
    /\ \E i \in 1..Len(calls) : calls[i].op = "addAssetFolders"
    /\ \E i \in 1..Len(calls) : calls[i].op = "addLanguage"

\* The entities of the loaded collection the kind's predicate does not reject.
Kept(kind) ==
    Filter(loaded[kind], LAMBDA m : ~config.process[kind].present
                                     \/ Key(kind, m) \notin config.process[kind].reject)

\* C6: after removeSkippedItemsFromImport, each collection other than the
\* language variants holds exactly the loaded entities whose predicate is
\* absent or returned true, in their order.
C6_FilterKeepsExactlyAccepted ==
    Filtered =>
        \A kind \in KindSet \ {"languageVariants"} : Ids(sourceData[kind]) = Ids(Kept(kind))

\* A predicate has rejected one asset and accepted another.
C6_Witness ==
    /\ Filtered
    /\ config.process["assets"].present
    /\ Len(loaded.assets) = 2
    /\ Len(sourceData.assets) = 1

VariantKeys(list) == [i \in 1..Len(list) |-> Key("languageVariants", list[i])]

\* C7: after removeSkippedItemsFromImport, the language variants are exactly
\* the loaded variants the languageVariant predicate did not reject.
C7_VariantFilterKeepsExactlyAccepted ==
    (Filtered /\ pc = At(After("removeSkippedItemsFromImport"), "gate")) =>
        VariantKeys(sourceData.languageVariants) = VariantKeys(Kept("languageVariants"))

C9_FilterBeforeTranslate == Translated => Filtered

\* C9, amended: translateIds runs first, removeSkippedItemsFromImport second,
\* and both have completed before the first network call is issued.
C9_TranslateThenFilterThenCalls ==
    /\ Filtered => (Len(passes) = 2 /\ passes[1] = "translateIds")
    /\ Len(calls) > 0 => (Translated /\ Filtered)
    /\ Len(passes) <= 2

\* A call has been issued for a source from which a predicate removed an item.
C9_Witness ==
    /\ Len(calls) > 0
    /\ Len(sourceData.contentItems) < Len(loaded.contentItems)

LedgerOf(kind) == {i \in 1..Len(Ledger) : Ledger[i].kind = kind}

\* C10: a stage whose collection is empty issues no call and records no
\* entry of its kind, and a run that returns has issued a call for every
\* stage whose collection is not empty.
C10_EmptyStageSkipped ==
    Filtered =>
        \A kind \in KindSet :
            /\ Len(sourceData[kind]) = 0 => (CallsOf(kind) = {} /\ LedgerOf(kind) = {})
            /\ (Done /\ Len(sourceData[kind]) > 0) => CallsOf(kind) # {}

\* A run over a source without taxonomies has returned after calls of every
\* other stage.
C10_Witness ==
    /\ Done
    /\ Len(sourceData.taxonomies) = 0
    /\ \A kind \in KindSet \ {"taxonomies"} :
          /\ CallsOf(kind) # {}
          /\ pushesResults(kind) => LedgerOf(kind) # {}

\* The calls of an operation issued for the entity `key`.
CallsFor(op, key) == {i \in 1..Len(calls) : calls[i].op = op /\ calls[i].key = key}

\* How often the unsupported-file callback was invoked for the asset `id`.
Notifications(id) == Cardinality({i \in 1..Len(notified) : notified[i].asset.id = id})

\* The entries of the result list for the original id `id` built by `kind`.
ResultsFor(kind, id) ==
    {i \in 1..Len(importedItems) :
        importedItems[i].kind = kind /\ importedItems[i].originalId = id}

\* C11: an asset whose payload is at least 100,000,000 bytes is uploaded with
\* empty binary content, the configured onUnsupportedBinaryFile callback is
\* invoked exactly once for it, and the asset is created and returned with
\* the id the target assigned; an asset below the ceiling is uploaded with
\* its original binary data and the callback is never invoked for it.
C11_OversizedAssetImportedWithoutData ==
    \A b \in 1..Len(sourceData.binaryFiles) :
        LET file == sourceData.binaryFiles[b]
            id == file.asset.id
        IN  IF file.asset.size >= 100000000
            THEN /\ \A i \in CallsFor("uploadBinaryFile", id) : calls[i].data.binaryData = "empty"
                 /\ Notifications(id) <= 1
                 /\ config.onUnsupportedBinaryFile = "absent" => Notifications(id) = 0
                 /\ CallsFor("uploadBinaryFile", id) # {} =>
                        Notifications(id) =
                            IF config.onUnsupportedBinaryFile = "present" THEN 1 ELSE 0
                 /\ Done => /\ Cardinality(ResultsFor("assets", id)) = 1
                            /\ \A e \in ResultsFor("assets", id) :
                                  importedItems[e].importId = NewId(id)
            ELSE /\ \A i \in CallsFor("uploadBinaryFile", id) :
                        calls[i].data.binaryData = file.binaryData
                 /\ Notifications(id) = 0

\* A run has returned in which the first asset's payload is exactly at the
\* ceiling, the callback was invoked for it, and the second asset is below it.
C11_Witness ==
    /\ Done
    /\ Len(sourceData.binaryFiles) = 2
    /\ sourceData.binaryFiles[1].asset.size = 100000000
    /\ sourceData.binaryFiles[2].asset.size < 100000000
    /\ Notifications(61) = 1
    /\ ResultsFor("assets", 61) # {}
    /\ CallsFor("uploadBinaryFile", 62) # {}

\* The asset at position a of the filtered source has no binary file.
WithoutBinaryFile(a) ==
    \A b \in 1..Len(sourceData.binaryFiles) :
        sourceData.binaryFiles[b].asset.id # sourceData.assets[a].id

\* Position of a stage in the order of importAsync.
StagePosition(stage) == Position(ImportOrder, stage)

\* C12: for an asset without a binary file keyed by its id the run aborts
\* with an error thrown instead of a network call: no uploadBinaryFile and no
\* addAsset call is issued for that asset, no call for a later asset or a
\* later stage is issued, and the run never returns.
C12_MissingBinaryFileAbortsRun ==
    /\ Filtered =>
         \A a \in 1..Len(sourceData.assets) :
            WithoutBinaryFile(a) =>
                /\ CallsFor("uploadBinaryFile", sourceData.assets[a].id) = {}
                /\ CallsFor("addAsset", sourceData.assets[a].id) = {}
                /\ \A later \in (a + 1)..Len(sourceData.assets) :
                      /\ CallsFor("uploadBinaryFile", sourceData.assets[later].id) = {}
                      /\ CallsFor("addAsset", sourceData.assets[later].id) = {}
                /\ \A i \in 1..Len(calls) :
                      StagePosition(calls[i].stage) <= StagePosition("assets")
                /\ StagePosition(pc.stage) <= StagePosition("assets")
                /\ (pc.stage = "assets" /\ pc.at = "loop") => idx <= a
    /\ error.kind = "binaryFileNotFound" =>
         /\ Failed
         /\ rejected = NoCall
         /\ inflight = NoCall
         /\ WithoutBinaryFile(idx)
         /\ \A a \in 1..(idx - 1) : ~WithoutBinaryFile(a)

\* The run was aborted at the second asset, which has no binary file, after
\* the first asset was created.
C12_Witness ==
    /\ error.kind = "binaryFileNotFound"
    /\ Failed
    /\ Len(sourceData.assets) = 2
    /\ WithoutBinaryFile(2)
    /\ CallsFor("addAsset", sourceData.assets[1].id) # {}

\* The entries of the result list built by the importer of `kind`, in order.
Entries(kind) == SelectSeq(importedItems, LAMBDA e : e.kind = kind)

RECURSIVE Depth(_)
\* The depth of a forest of folders (0: no folder).
Depth(folders) ==
    IF Len(folders) = 0 THEN 0
    ELSE LET d == {Depth(folders[i].folders) : i \in 1..Len(folders)}
         IN  1 + CHOOSE m \in d : \A x \in d : x <= m

\* The asset-folder stage has completed: the target's response mirrored the
\* submitted tree and the importer's results were pushed.
FoldersImported ==
    /\ CallsFor("addAssetFolders", 0) # {}
    /\ StagePosition(pc.stage) > StagePosition("assetFolders")

\* C13: when the response mirrors the submitted tree, the ledger holds exactly
\* one entry per original folder node, top-level or nested, mapping the
\* node's id to the id of the response folder with the same external_id.
C13_OneEntryPerFolderNode ==
    FoldersImported =>
        LET nodes == FolderIds(sourceData.assetFolders)
        IN  /\ Len(Entries("assetFolders")) = Len(nodes)
            /\ \A n \in 1..Len(nodes) :
                  /\ Entries("assetFolders")[n].originalId = nodes[n]
                  /\ Entries("assetFolders")[n].importId = NewId(nodes[n])
            /\ \A m, n \in 1..Len(nodes) : m # n => nodes[m] # nodes[n]

\* A chain of three nested folders has been imported.
C13_Witness ==
    /\ FoldersImported
    /\ Depth(sourceData.assetFolders) = 3
    /\ Len(Entries("assetFolders")) = 3

\* The target's languages named `codename`.
TargetLanguages(codename) ==
    {i \in 1..Len(target.languages) : target.languages[i].codename = codename}

\* The target held an inactive language named `codename` when the run began.
InactiveAtStart(codename) ==
    \E i \in 1..Len(initialTarget.languages) :
        /\ initialTarget.languages[i].codename = codename
        /\ ~initialTarget.languages[i].isActive

\* The language stage has completed.
LanguagesImported == Filtered /\ StagePosition(pc.stage) > StagePosition("languages")

\* C14: with fixLanguages enabled, a source language whose codename names an
\* inactive language of the target is, after the language stage, active in
\* the target, the target holds exactly one language of that codename, and
\* no addLanguage call was issued for it.
C14_InactiveLanguageReactivated ==
    (config.fixLanguages /\ LanguagesImported) =>
        \A l \in 1..Len(sourceData.languages) :
            LET codename == sourceData.languages[l].codename
            IN  InactiveAtStart(codename) =>
                    /\ Cardinality(TargetLanguages(codename)) = 1
                    /\ \A i \in TargetLanguages(codename) : target.languages[i].isActive
                    /\ \A i \in 1..Len(calls) :
                          calls[i].op = "addLanguage" => calls[i].data.codename # codename
                    /\ CallsFor("addLanguage", sourceData.languages[l].id) = {}

\* The language stage has completed after activating an inactive language.
C14_Witness ==
    /\ config.fixLanguages
    /\ LanguagesImported
    /\ \E l \in 1..Len(sourceData.languages) :
          /\ InactiveAtStart(sourceData.languages[l].codename)
          /\ \E i \in 1..Len(calls) :
                /\ calls[i].op = "modifyLanguage"
                /\ calls[i].key = sourceData.languages[l].codename
                /\ calls[i].data.property_name = "is_active"
          /\ \A i \in TargetLanguages(sourceData.languages[l].codename) :
                target.languages[i].isActive

\* A language named `codename` was in the target when the run began, and the
\* run has not renamed it.
ExistsInTarget(codename) ==
    /\ \E i \in 1..Len(initialTarget.languages) :
          initialTarget.languages[i].codename = codename
    /\ \A i \in 1..Len(calls) :
          ~(calls[i].op = "modifyLanguage" /\ calls[i].data.property_name = "codename"
              /\ calls[i].key = codename)

\* The source language at position l was created in the target.
LanguageAdded(l) ==
    \E i \in CallsFor("addLanguage", sourceData.languages[l].id) : Acknowledged(i)

\* C15: a source language whose codename already exists in the target is
\* skipped: no addLanguage call, no ledger entry and no onImport event is
\* produced for it; the other languages are still processed, so that once
\* the stage has completed the target holds every source language.
C15_ExistingLanguageSkipped ==
    Filtered =>
        \A l \in 1..Len(sourceData.languages) :
            LET language == sourceData.languages[l]
            IN  /\ ExistsInTarget(language.codename) =>
                      /\ CallsFor("addLanguage", language.id) = {}
                      /\ \A e \in 1..Len(Ledger) :
                            ~(Ledger[e].kind = "languages" /\ Ledger[e].originalId = language.id)
                      /\ \A e \in 1..Len(events) :
                            ~(events[e].type = "language" /\ events[e].title = language.id)
                /\ LanguagesImported =>
                      /\ TargetLanguages(language.codename) # {}
                      /\ ExistsInTarget(language.codename) \/ LanguageAdded(l)
                            \/ config.fixLanguages

\* The first language of the source was skipped and the second one, listed
\* after it, was created.
C15_Witness ==
    /\ LanguagesImported
    /\ ~config.fixLanguages
    /\ Len(sourceData.languages) = 2
    /\ ExistsInTarget(sourceData.languages[1].codename)
    /\ CallsFor("addLanguage", sourceData.languages[1].id) = {}
    /\ LanguageAdded(2)

\* The language variants as importLanguageVariantsAsync receives them, with
\* the references of their elements still naming original ids.
OriginalVariants == removeSkippedItemsFromImport(translateIds(loaded)).languageVariants

\* The upsert calls issued so far, in order.
Upserts == SelectSeq(calls, LAMBDA c : c.op = "upsertLanguageVariant")

\* The content item or asset `id` was created earlier in this run.
ImportedEarlier(id) ==
    \E i \in 1..Len(calls) :
        /\ calls[i].op \in {"addContentItem", "addAsset"}
        /\ calls[i].key = id
        /\ Acknowledged(i)

\* The ids an element list refers to, flattened.
RefsOf(elements) ==
    UNION {{elements[e].value[v].id : v \in 1..Len(elements[e].value)} :
            e \in 1..Len(elements)}

\* C16: while the variant importer runs, the ledger it resolves against has
\* an entry for every content item and asset imported earlier that a variant
\* refers to, and the payload of every upsert call, as issued, carries the
\* importedId in place of every reference to such an item or asset, also
\* inside list-valued elements.
C16_VariantReferencesResolved ==
    /\ pc.stage = "languageVariants" =>
          /\ Len(OriginalVariants) = Len(sourceData.languageVariants)
          /\ \A j \in 1..Len(OriginalVariants) :
                \A ref \in RefsOf(OriginalVariants[j].elements) :
                    ImportedEarlier(ref) =>
                        \E e \in 1..Len(importedItems) :
                            /\ importedItems[e].originalId = ref
                            /\ importedItems[e].importId = NewId(ref)
    /\ \A j \in 1..Len(Upserts) :
          LET original == OriginalVariants[j].elements
              sent == Upserts[j].data
          IN  /\ Len(sent) = Len(original)
              /\ \A e \in 1..Len(original) :
                    /\ Len(sent[e].value) = Len(original[e].value)
                    /\ \A v \in 1..Len(original[e].value) :
                          ImportedEarlier(original[e].value[v].id) =>
                              sent[e].value[v].id = NewId(original[e].value[v].id)
              /\ \A ref \in RefsOf(sent) : ~ImportedEarlier(ref)

\* The upsert of the variant that refers to content item 72 and asset 61,
\* both created earlier in the run, has been issued.
C16_Witness ==
    /\ Len(Upserts) >= 2
    /\ RefsOf(OriginalVariants[2].elements) = {72, 61}
    /\ ImportedEarlier(72) /\ ImportedEarlier(61)
    /\ RefsOf(Upserts[2].data) = {NewId(72), NewId(61)}

\* The create call of the kinds that issue one call per entity.
CreateOp(kind) ==
    CASE kind = "languages" -> "addLanguage"
      [] kind = "taxonomies" -> "addTaxonomy"
      [] kind = "contentTypeSnippets" -> "addContentTypeSnippet"
      [] kind = "contentTypes" -> "addContentType"
      [] kind = "assets" -> "addAsset"
      [] kind = "contentItems" -> "addContentItem"
      [] kind = "languageVariants" -> "upsertLanguageVariant"

\* The create calls of a kind issued so far, in order.
Created(kind) == SelectSeq(calls, LAMBDA c : c.op = CreateOp(kind))

\* C17: the list importAsync returns holds, in stage order and in input order
\* within a stage, exactly one tuple per acknowledged asset folder, language,
\* taxonomy, asset, content item and language variant, and no tuple for
\* content types or content-type snippets.
C17_ReturnedListIsTheLedgerInOrder ==
    Done =>
        /\ \A i, j \in 1..Len(importedItems) :
              i < j => Rank(importedItems[i].kind) <= Rank(importedItems[j].kind)
        /\ \A kind \in {"languages", "taxonomies", "assets", "contentItems"} :
              /\ Len(Entries(kind)) = Len(Created(kind))
              /\ \A n \in 1..Len(Created(kind)) :
                    /\ Entries(kind)[n].originalId = Created(kind)[n].key
                    /\ Entries(kind)[n].importId = NewId(Created(kind)[n].key)
        /\ Len(Entries("languageVariants")) = Len(Created("languageVariants"))
        /\ \A n \in 1..Len(Created("languageVariants")) :
              Entries("languageVariants")[n].importId =
                  TargetItemId(Created("languageVariants")[n].key[1])
        /\ CallsFor("addAssetFolders", 0) = {} => Entries("assetFolders") = << >>
        /\ CallsFor("addAssetFolders", 0) # {} =>
              [n \in 1..Len(Entries("assetFolders")) |-> Entries("assetFolders")[n].originalId]
                  = FolderIds(sourceData.assetFolders)
        /\ Entries("contentTypes") = << >>
        /\ Entries("contentTypeSnippets") = << >>

\* A run has returned tuples of all six kinds after it created content types
\* and content-type snippets as well.
C17_Witness ==
    /\ Done
    /\ \A kind \in {"assetFolders", "languages", "taxonomies", "assets", "contentItems",
                    "languageVariants"} : Len(Entries(kind)) > 0
    /\ Len(Created("contentTypes")) > 0
    /\ Len(Created("contentTypeSnippets")) > 0
    /\ Len(Entries("taxonomies")) = 2

\* The (item codename, language codename) a variant call is keyed by.
Codenames(variant) == << variant.item.codename, variant.language.codename >>

\* The variant's workflow step, as the source recorded it, is a step named
\* 'Published'.
RecordedAsPublished(j) ==
    \E s \in 1..Len(loaded.workflowSteps) :
        /\ loaded.workflowSteps[s].name = "Published"
        /\ loaded.workflowSteps[s].id = OriginalVariants[j].workflow_step.id

\* The run has gone past the stage.
Past(stage) == StagePosition(pc.stage) > StagePosition(stage)

\* C18: publish calls are issued only with enablePublish set and only after
\* every variant of the run was upserted and acknowledged; once the pass is
\* over, exactly one publish call was issued for each variant whose recorded
\* workflow step is named 'Published' and none for any other, so none at all
\* when the source has no such step.
C18_PublishOnlyPublishedVariants ==
    /\ \A i \in CallsOf("publish") :
          /\ calls[i].op = "publishLanguageVariant"
          /\ config.enablePublish
          /\ Len(Upserts) = Len(sourceData.languageVariants)
          /\ \A u \in 1..Len(calls) : calls[u].op = "upsertLanguageVariant" => u < i
          /\ \E j \in 1..Len(OriginalVariants) :
                RecordedAsPublished(j) /\ calls[i].key = Codenames(OriginalVariants[j])
    /\ Past("publish") =>
          \A j \in 1..Len(OriginalVariants) :
              Cardinality(CallsFor("publishLanguageVariant", Codenames(OriginalVariants[j])))
                  = IF config.enablePublish /\ RecordedAsPublished(j) THEN 1 ELSE 0
    /\ (\A s \in 1..Len(loaded.workflowSteps) : loaded.workflowSteps[s].name # "Published")
          => CallsOf("publish") = {}

\* A run has published the first variant, whose step is 'Published', and left
\* the second one, a draft, unpublished.
C18_Witness ==
    /\ Past("publish")
    /\ Len(Upserts) = 2
    /\ RecordedAsPublished(1) /\ ~RecordedAsPublished(2)
    /\ CallsFor("publishLanguageVariant", Codenames(OriginalVariants[1])) # {}
    /\ CallsFor("publishLanguageVariant", Codenames(OriginalVariants[2])) = {}

\* The publish calls the publish pass issues when it runs to its end.
PublishPassOver ==
    Cardinality(CallsOf("publish")) =
        IF config.enablePublish
        THEN Cardinality({j \in 1..Len(OriginalVariants) : RecordedAsPublished(j)})
        ELSE 0

\* C19: with workflowIdForImportedItems configured, one change-workflow-step
\* call carrying that id is issued for every imported language variant, keyed
\* by its item and language codenames, after the publish pass; without it no
\* such call is issued.
C19_MoveEveryVariantToConfiguredStep ==
    /\ \A i \in CallsOf("changeWorkflowStep") :
          /\ calls[i].op = "changeWorkflowStepOfLanguageVariant"
          /\ config.workflowIdForImportedItems # NoId
          /\ calls[i].data = config.workflowIdForImportedItems
          /\ PublishPassOver
          /\ \A p \in CallsOf("publish") : p < i
          /\ \E j \in 1..Len(OriginalVariants) : calls[i].key = Codenames(OriginalVariants[j])
    /\ Done =>
          /\ Len(Upserts) = Len(OriginalVariants)
          /\ \A j \in 1..Len(OriginalVariants) :
                Cardinality(CallsFor("changeWorkflowStepOfLanguageVariant",
                                     Codenames(OriginalVariants[j])))
                    = IF config.workflowIdForImportedItems # NoId THEN 1 ELSE 0

\* A run has returned after it published one variant and moved both variants
\* to the configured step.
C19_Witness ==
    /\ Done
    /\ config.workflowIdForImportedItems = 91
    /\ Len(Upserts) = 2
    /\ CallsOf("publish") # {}
    /\ Cardinality(CallsOf("changeWorkflowStep")) = 2

\* The kind tags the specification lists.
ListedTags ==
    { "language", "asset", "assetFolder", "contentType", "contentTypeSnippet", "contentItem",
      "languageVariant", "publish", "changeWorkflowStep" }

\* The tags of the events handed to onImport so far.
Tags == {events[e].type : e \in 1..Len(events)}

\* C20, as claimed: every event handed to onImport carries one of the nine
\* listed tags.
C20_OnlyListedTags == Tags \subseteq ListedTags

\* C20, amended: every event handed to onImport carries one of the nine
\* listed tags or the tag 'taxonomy', which the taxonomy importer emits.
C20_OnlyListedTagsOrTaxonomy == Tags \subseteq (ListedTags \cup {"taxonomy"})

\* A run has returned after events of every one of the ten tags.
C20_Witness == Done /\ Tags = ListedTags \cup {"taxonomy"}

\* The errors that only a raising observer callback produces.
CallbackErrors == { "onImport", "onUnsupportedBinaryFile" }

\* C21: the observer callbacks do not alter control flow: whatever onImport
\* and onUnsupportedBinaryFile do, raising an Error included, the calls issued
\* and the ledger are those of the run with silent callbacks, so that no run
\* is ever aborted by an Error that came out of a callback.
C21_CallbacksDoNotAlterControlFlow ==
    Failed => error.kind \notin CallbackErrors

\* C22: provided every call eventually returns, a run of importAsync over a
\* finite source eventually returns its result list or is aborted by the
\* first unhandled error; it never stays in an intermediate stage for ever.
C22_RunEventuallyReturnsOrAborts == <>(Done \/ Failed)

\* A run that issued calls in stage after stage and returned.
C22_Witness ==
    /\ Done
    /\ rejected = NoCall
    /\ \A stage \in {"assetFolders", "languages", "assets", "languageVariants", "publish"} :
          CallsOf(stage) # {}

\* The calls creating one entity of the kind of a stage that a later call
\* has followed.
Followed(stage) ==
    {i \in CallsOf(stage) : i < Len(calls) /\ calls[i].op \in EntityOps \cup {"upsertLanguageVariant"}}

\* Every call that was followed by another one has its entry recorded: in
\* the list of the importer while it runs, in importedItems once importAsync
\* has pushed what the importer returned.
EntryRecordedBeforeNextCall ==
    \A stage \in KindSet :
        (pc.stage = stage \/ pushesResults(stage)) =>
            Cardinality(LedgerOf(stage)) >= Cardinality(Followed(stage))

\* A step that issues a call issues one call, which becomes the only
\* outstanding one, and it is taken either with no call outstanding or as the
\* continuation of the acknowledgement of the one that is.
IssuesOneCallAfterAcknowledgement ==
    Len(calls') > Len(calls) =>
        /\ calls' = Append(calls, inflight')
        /\ inflight' # NoCall
        /\ \/ inflight = NoCall
           \/ pc.at = "wait" /\ inflight = calls[Len(calls)] /\ rejected' = rejected

\* C23: at most one call is outstanding at any moment of a run: within a kind
\* and across kinds, the call for the next entity is issued only once the
\* call of the one before was acknowledged and its ledger entry recorded.
C23_OneOutstandingCall ==
    /\ [](inflight # NoCall => inflight = calls[Len(calls)])
    /\ []EntryRecordedBeforeNextCall
    /\ [][IssuesOneCallAfterAcknowledgement]_vars

\* The call for the second content item is outstanding, the one for the
\* first was acknowledged and recorded.
C23_Witness ==
    /\ inflight # NoCall
    /\ inflight.op = "addContentItem"
    /\ Followed("contentItems") # {}
    /\ Len(localItems) = 1
    /\ localItems[1].kind = "contentItems"

\* C24: ledger writes and same-stage reads are strictly ordered: within the
\* asset stage and within the language-variant stage, once the create/upsert
\* call of an entity is acknowledged, its ledger entry is in the ledger used
\* for the reference resolution of the next entity of the stage.
C24_SameStageReadsSeeWrites ==
    \A stage \in {"assets", "languageVariants"} :
        (Importing(stage) /\ idx <= Len(sourceData[stage])) =>
            \A i \in 1..Len(localItems) :
                \E j \in 1..Len(currentItems) : currentItems[j] = localItems[i]

\* Call i renames a language of the target.
Rename(i) == calls[i].op = "modifyLanguage" /\ calls[i].data.property_name = "codename"

\* Call i adds a language, or activates one that is not the default
\* language of the source.
ProcessesOtherLanguage(i) ==
    \/ calls[i].op = "addLanguage"
    \/ /\ calls[i].op = "modifyLanguage"
       /\ calls[i].data.property_name = "is_active"
       /\ calls[i].key # loaded.languages[DefaultOf(loaded.languages)].codename

\* The default language of the source was named differently from the one of
\* the target when the run began.
MismatchAtStart ==
    /\ DefaultOf(loaded.languages) # 0
    /\ DefaultOf(initialTarget.languages) # 0
    /\ loaded.languages[DefaultOf(loaded.languages)].codename
          # initialTarget.languages[DefaultOf(initialTarget.languages)].codename

\* C25: with fixLanguages enabled and a default-language codename mismatch,
\* the rename of the target's default language is issued before any other
\* source language is processed: no addLanguage call and no activation of a
\* non-default language precedes it, wherever the default language stands in
\* the source list.
C25_RenameBeforeOtherLanguages ==
    (config.fixLanguages /\ MismatchAtStart) =>
        \A j \in 1..Len(calls) :
            Rename(j) => \A i \in 1..(j - 1) : ~ProcessesOtherLanguage(i)

\* No two entries of a list of results share kind and originalId.
UniqueKeys(items) ==
    \A i, j \in 1..Len(items) :
        (items[i].kind = items[j].kind /\ items[i].originalId = items[j].originalId) => i = j

\* A step only appends to importedItems.
AppendOnly ==
    /\ Len(importedItems') >= Len(importedItems)
    /\ SubSeq(importedItems', 1, Len(importedItems)) = importedItems

\* C26: in every reachable state the ledger is append-only and holds no two
\* entries with the same (entity kind, originalId), for every kind, the
\* entries of the language variants included when several are imported.
C26_LedgerKeysUnique ==
    [][AppendOnly]_vars /\ [](UniqueKeys(importedItems) /\ UniqueKeys(localItems))

\* The ids the entities of a kind had in the source project; for a language
\* variant, the id of its content item.
SourceIds(kind) ==
    IF kind = "assetFolders" THEN Range(FolderIds(loaded.assetFolders))
    ELSE IF kind = "languageVariants"
    THEN {loaded.languageVariants[k].item.id : k \in 1..Len(loaded.languageVariants)}
    ELSE {loaded[kind][k].id : k \in 1..Len(loaded[kind])}

\* C27: every ledger entry has originalId equal to the identity the entity
\* had in the source project and importId equal to the identity the target
\* assigned; the entry of a language variant, built after the references of
\* the variant were rewritten to target ids, still carries the source id of
\* its content item as originalId.
C27_EntriesCarrySourceIds ==
    \A i \in 1..Len(Ledger) :
        /\ Ledger[i].originalId \in SourceIds(Ledger[i].kind)
        /\ Ledger[i].importId = NewId(Ledger[i].originalId)

\* C28: for every asset the upload of the binary file is issued and
\* acknowledged before the create call of the asset, the create call refers
\* to exactly the file id that the asset's own upload returned, and no create
\* call is issued for an asset whose upload failed.
C28_UploadBeforeCreate ==
    /\ \A i \in 1..Len(calls) :
          calls[i].op = "addAsset" =>
              /\ i > 1
              /\ calls[i - 1].op = "uploadBinaryFile"
              /\ calls[i - 1].key = calls[i].key
              /\ rejected # calls[i - 1]
              /\ calls[i].data.file_reference.id = FileId(calls[i].key)
    /\ rejected.op = "uploadBinaryFile" => CallsFor("addAsset", rejected.key) = {}

\* Two assets were created, each with the file id of its own upload.
C28_Witness ==
    /\ Len(sourceData.assets) = 2
    /\ \A a \in 1..2 :
          \E i \in CallsFor("addAsset", sourceData.assets[a].id) :
              /\ Acknowledged(i)
              /\ calls[i].data.file_reference.id = FileId(sourceData.assets[a].id)
    /\ FileId(sourceData.assets[1].id) # FileId(sourceData.assets[2].id)

RECURSIVE ExternalIds(_)
\* The external ids of the folders of a response, at any depth.
ExternalIds(folders) ==
    UNION { {folders[i].externalId} \cup ExternalIds(folders[i].folders) :
            i \in 1..Len(folders) }

\* The response holds a folder whose external_id is the one of no folder of
\* the original tree.
HasForeignFolder(response) ==
    \E x \in ExternalIds(response) : x \notin Range(FolderIds(sourceData.assetFolders))

\* A step that handles a response with such a folder ends the run.
ForeignFolderAborts ==
    \A response \in FolderResponses(inflight.data) :
        (HasForeignFolder(response) /\ addAssetFoldersResponse(response)) =>
            (pc'.at = "failed" /\ error'.kind = "folderNotFound" /\ importedItems' = << >>)

\* C29: if the response to addAssetFolders holds a folder, at any depth,
\* whose external_id matches no folder of the original tree, the run aborts
\* with a fatal error: no later stage issues a call and no result list is
\* returned.
C29_ForeignFolderAbortsRun ==
    /\ [][inflight.op = "addAssetFolders" => ForeignFolderAborts]_vars
    /\ [](error.kind = "folderNotFound" =>
            /\ Failed /\ ~Done
            /\ inflight = NoCall
            /\ \A i \in 1..Len(calls) : calls[i].stage = "assetFolders")

\* The run was aborted over a folder of the response, in a source with a
\* folder inside a folder.
C29_Witness ==
    /\ error.kind = "folderNotFound"
    /\ Failed
    /\ Depth(sourceData.assetFolders) >= 2

\* The language of the loaded source with the given id.
SourceLanguage(id) == loaded.languages[FindIdx(loaded.languages, LAMBDA m : m.id = id)]

\* The codename of the language a source language falls back to; Undefined
\* when the source holds no language with the id of the fallback.
FallbackCodename(language) == CodenameOfId(loaded.languages, language.fallback_language.id)

\* A language with an unresolved fallback is never sent; the language stage
\* is left behind only if the target held a language of its codename.
UnresolvedFallbackNeverSent ==
    \A l \in 1..Len(sourceData.languages) :
        LET language == sourceData.languages[l]
        IN  (Filtered /\ FallbackCodename(language) = Undefined) =>
                /\ CallsFor("addLanguage", language.id) = {}
                /\ LanguagesImported =>
                      \E t \in TargetLanguages(language.codename) :
                          target.languages[t].id # NewId(language.id)

\* C30, as claimed: for every non-default language added to the target, the
\* fallback_language of the addLanguage call is the default-language sentinel
\* id when the fallback of the language is the default language, and the
\* codename of its fallback language otherwise; a language whose fallback
\* codename is unresolved is never sent and causes a fatal error.
C30_SentinelWhenFallbackIsDefault ==
    /\ \A i \in 1..Len(calls) :
          (calls[i].op = "addLanguage" /\ calls[i].key # defaultLanguageId) =>
              LET language == SourceLanguage(calls[i].key)
              IN  calls[i].data.fallback_language =
                      IF language.fallback_language.id = defaultLanguageId
                      THEN [id |-> defaultLanguageId]
                      ELSE [codename |-> FallbackCodename(language)]
    /\ UnresolvedFallbackNeverSent

\* C30, as the code has it: for every non-default language added to the
\* target, the fallback_language of the addLanguage call is the codename of
\* its fallback language, the default language included; the sentinel id is
\* sent only for a language whose fallback codename is its own codename; a
\* language whose fallback codename is unresolved is never sent and causes a
\* fatal error.
C30_FallbackSentByCodename ==
    /\ \A i \in 1..Len(calls) :
          (calls[i].op = "addLanguage" /\ calls[i].key # defaultLanguageId) =>
              LET language == SourceLanguage(calls[i].key)
              IN  calls[i].data.fallback_language =
                      IF FallbackCodename(language) = language.codename
                      THEN [id |-> defaultLanguageId]
                      ELSE [codename |-> FallbackCodename(language)]
    /\ UnresolvedFallbackNeverSent

\* A language that falls back to the default language and one that falls
\* back to another language were added, each with the codename of its
\* fallback.
C30_Witness ==
    /\ Len(loaded.languages) = 3
    /\ \E i \in CallsFor("addLanguage", LanguageId(2)) :
          Acknowledged(i) /\ calls[i].data.fallback_language = [codename |-> "en-US"]
    /\ \E i \in CallsFor("addLanguage", LanguageId(3)) :
          Acknowledged(i) /\ calls[i].data.fallback_language = [codename |-> "de-DE"]

====
